---- MODULE Spec2Model ----
(***************************************************************************)
(* Model of penny.py: the record types (Transaction, Income, Expense,      *)
(* SavingsGoal) and FinanceManager (the in-memory ledger self.data, the    *)
(* durable JSON file, append / contribute / summary / import).             *)
(*                                                                         *)
(* Representation.                                                         *)
(*  - A Python str is a sequence of symbols (TLA+ strings); the symbols    *)
(*    "/", ",", ":" and " " are the separators the tabular codec splits    *)
(*    and strips on, every other symbol is an unbreakable run of text.     *)
(*  - None is the one-symbol sequence None, which no str contains.         *)
(*  - Numbers are integers; str(n) is ToString(n).                         *)
(*  - A dict is a record whose DOMAIN is the dict's key set, so a missing  *)
(*    key is a missing field.                                              *)
(*  - str(hash(s)) is modelled as injective in the text and in the seed    *)
(*    the process hashes str with: the id is the seed and the hashed text  *)
(*    after a "#" symbol.  hashseed is the seed of the running process.    *)
(*  - json.dump / json.load of the values the ledger holds (str, number,   *)
(*    bool, None, list, dict with str keys) preserve the value and lose    *)
(*    object identity: a decoded ledger shares no list with any object.    *)
(*  - SavingsGoal.to_dict() hands out the goal's contributions list by      *)
(*    reference, so the mappings made from one SavingsGoal object hold the *)
(*    same list.  shared[i] names the list savings_goals[i] holds: the     *)
(*    index of the first mapping made from the same object, or 0 for a     *)
(*    mapping that was decoded from a file.  objects[i] is current_amount  *)
(*    of the SavingsGoal object savings_goals[i] was made from (0 where    *)
(*    there is none): the caller holds the object, the ledger the mapping. *)
(***************************************************************************)
EXTENDS Integers, Sequences, FiniteSets, TLC

VARIABLES data, file, shared, last, pc, hashseed, objects

vars == <<data, file, shared, last, pc, hashseed, objects>>

(***************************************************************************)
(* Bounds of the model.                                                    *)
(***************************************************************************)
MaxGoals == 2
MaxContrib == 2
MaxHeld == 10

None == <<"None">>
Today == <<"2026-10-31">>
Version == <<"0.0.1">>

(***************************************************************************)
(* Enums (penny.py 11-27): the member name and its .value.                 *)
(***************************************************************************)
Frequency == [MONTHLY |-> <<"monthly">>, ONE_TIME |-> <<"one-time">>]
ExpenseCategory == [BUSINESS |-> <<"business">>, PERSONAL |-> <<"personal">>]
SavingsCategory == [ELECTRONICS |-> <<"electronics">>, EMERGENCY |-> <<"emergency">>]

\* str() of a number inside an f-string
Str(n) == <<ToString(n)>>

\* Python truthiness of a str-or-None value: "" and None are falsy
Truthy(s) == s # <<>> /\ s # None

\* str(hash(text)) in a process whose str hashing is seeded with seed
HashOf(seed, text) == <<"#", seed>> \o text

\* str(hash(text)) in the running process
HashId(text) == HashOf(hashseed, text)

Ok(o) == [err |-> "ok", obj |-> o]
Raise(e) == [err |-> e, obj |-> <<>>]

(***************************************************************************)
(* Transaction.__init__(amount, description, date=None).  The parameter    *)
(* named date shadows the imported class, so with date = None the          *)
(* expression "date or date.today()" evaluates None.today().               *)
(***************************************************************************)
TransactionInit(amount, description, dateArg) ==
    IF amount <= 0 THEN Raise("ValueError")
    ELSE IF ~Truthy(dateArg) THEN Raise("AttributeError")
    ELSE Ok([amount |-> amount, description |-> description, date |-> dateArg,
             id |-> HashId(dateArg \o <<"-">> \o description \o <<"-">> \o Str(amount))])

\* Income.__init__: super().__init__(amount, description or f"Income from {source}")
IncomeInit(amount, source, frequency, description, is_target) ==
    LET d == IF Truthy(description) THEN description
             ELSE <<"Income", " ", "from", " ">> \o source
        t == TransactionInit(amount, d, None)
    IN IF t.err # "ok" THEN t
       ELSE Ok([id |-> t.obj.id, amount |-> t.obj.amount,
                description |-> t.obj.description, date |-> t.obj.date,
                type |-> <<"income">>, source |-> source,
                frequency |-> Frequency[frequency], is_target |-> is_target])

\* Expense.__init__: super().__init__(amount, description or f"{category.value} expense: {subcategory}")
ExpenseInit(amount, category, subcategory, description, is_recurring) ==
    LET d == IF Truthy(description) THEN description
             ELSE ExpenseCategory[category] \o <<" ", "expense", ":", " ">> \o subcategory
        t == TransactionInit(amount, d, None)
    IN IF t.err # "ok" THEN t
       ELSE Ok([id |-> t.obj.id, amount |-> t.obj.amount,
                description |-> t.obj.description, date |-> t.obj.date,
                type |-> <<"expense">>, category |-> ExpenseCategory[category],
                subcategory |-> subcategory, is_recurring |-> is_recurring])

(***************************************************************************)
(* SavingsGoal.__init__ followed by to_dict: the object is kept as the     *)
(* mapping to_dict returns; its contributions entry is the object's own    *)
(* list, which to_dict hands out by reference.                             *)
(***************************************************************************)
SavingsGoalInit(name, target_amount, category, deadline, priority) ==
    IF target_amount <= 0 THEN Raise("ValueError")
    ELSE IF priority < 1 \/ priority > 5 THEN Raise("ValueError")
    ELSE Ok([id |-> HashId(name \o <<"-">> \o Str(target_amount) \o <<"-">>
                           \o <<"SavingsCategory.", category>>),
             name |-> name, target_amount |-> target_amount,
             current_amount |-> 0, category |-> SavingsCategory[category],
             deadline |-> deadline, priority |-> priority,
             contributions |-> <<>>])

\* SavingsGoal.add_contribution(amount, date=None) on the object goal: the
\* object after the call and the outcome.  current_amount is increased
\* before the entry is built, and the parameter named date shadows the
\* class, as in Transaction.__init__.
add_contribution(goal, amount, dateArg) ==
    IF amount <= 0 THEN [goal |-> goal, res |-> Raise("ValueError")]
    ELSE IF ~Truthy(dateArg)
         THEN [goal |-> [goal EXCEPT !.current_amount = @ + amount],
               res |-> Raise("AttributeError")]
    ELSE [goal |-> [goal EXCEPT !.current_amount = @ + amount,
                                !.contributions =
                                    Append(@, [amount |-> amount, date |-> dateArg])],
          res |-> Ok(None)]

(***************************************************************************)
(* The durable file: absent, text that is not JSON (this includes an       *)
(* empty or truncated file), bytes that are not text in the encoding       *)
(* open() reads with, or the JSON text of a value.                         *)
(***************************************************************************)
Absent == [kind |-> "absent", val |-> [none |-> TRUE]]
Corrupt == [kind |-> "corrupt", val |-> [none |-> TRUE]]
Undecodable == [kind |-> "undecodable", val |-> [none |-> TRUE]]
\* the file right after open(path, "w"), and while json.dump is writing it
Partial == [kind |-> "partial", val |-> [none |-> TRUE]]
Json(v) == [kind |-> "json", val |-> v]

\* FinanceManager.__init__: the ledger before load_data
DefaultData ==
    [incomes |-> <<>>, expenses |-> <<>>, savings_goals |-> <<>>, version |-> Version]

\* A ledger read from a file or built by an import shares no list with any
\* SavingsGoal object: one 0 per goal.
NoSharing(d) ==
    IF "savings_goals" \in DOMAIN d
    THEN [i \in 1..Len(d.savings_goals) |-> 0]
    ELSE <<>>

\* FinanceManager.load_data, applied to the freshly constructed default:
\* the ledger it leaves, or the exception that is not caught (only
\* json.JSONDecodeError is)
load_data(f) ==
    IF f.kind = "json" THEN Ok(f.val)
    ELSE IF f.kind = "undecodable" THEN Raise("UnicodeDecodeError")
    ELSE Ok(DefaultData)

\* FinanceManager.save_data: open(..., "w") and json.dump, as one step
save_data(d) == Json(d)

\* What a handler hands back: the manager's state after it, its outcome
\* (res.err is "ok" or the exception raised, res.obj the returned value) and
\* whether it called save_data.
Result(d, f, sh, res) ==
    [data |-> d, file |-> f, shared |-> sh, res |-> res, saved |-> FALSE]

\* the handler ends with self.save_data()
Saved(d, sh, res) ==
    [data |-> d, file |-> save_data(d), shared |-> sh, res |-> res, saved |-> TRUE]

(***************************************************************************)
(* add_income / add_expense / add_savings_goal: append the mapping, save.  *)
(***************************************************************************)
add_income(d, f, sh, income) ==
    IF "incomes" \notin DOMAIN d THEN Result(d, f, sh, Raise("KeyError"))
    ELSE LET d2 == [d EXCEPT !.incomes = Append(@, income)]
         IN Saved(d2, sh, Ok(None))

add_expense(d, f, sh, expense) ==
    IF "expenses" \notin DOMAIN d THEN Result(d, f, sh, Raise("KeyError"))
    ELSE LET d2 == [d EXCEPT !.expenses = Append(@, expense)]
         IN Saved(d2, sh, Ok(None))

\* variant: the goal is appended but the ledger is not saved
add_savings_goal_unsaved(d, f, sh, goal, k) ==
    IF "savings_goals" \notin DOMAIN d THEN Result(d, f, sh, Raise("KeyError"))
    ELSE Result([d EXCEPT !.savings_goals = Append(@, goal)], f, Append(sh, k), Ok(None))

\* goal is the to_dict() of a SavingsGoal, k the list its contributions is
\* (see shared)
add_savings_goal(d, f, sh, goal, k) ==
    IF "savings_goals" \notin DOMAIN d THEN Result(d, f, sh, Raise("KeyError"))
    ELSE LET d2 == [d EXCEPT !.savings_goals = Append(@, goal)]
         IN Saved(d2, Append(sh, k), Ok(None))

(***************************************************************************)
(* contribute_to_goal: the scan stops at the first goal that has no "id"   *)
(* key (KeyError) or whose id matches.                                     *)
(***************************************************************************)
ScanStop(goals, goal_id) ==
    LET stops == {i \in 1..Len(goals) :
                    "id" \notin DOMAIN goals[i] \/ goals[i].id = goal_id}
    IN IF stops = {} THEN 0 ELSE CHOOSE i \in stops : \A j \in stops : i <= j

contribute_to_goal(d, f, sh, goal_id, amount) ==
    IF "savings_goals" \notin DOMAIN d THEN Result(d, f, sh, Raise("KeyError"))
    ELSE
    LET goals == d.savings_goals
        i == ScanStop(goals, goal_id)
        entry == [amount |-> amount, date |-> Today]
    IN IF i = 0 THEN Result(d, f, sh, Ok(FALSE))
       ELSE IF "id" \notin DOMAIN goals[i] THEN Result(d, f, sh, Raise("KeyError"))
       ELSE IF "current_amount" \notin DOMAIN goals[i]
            THEN Result(d, f, sh, Raise("KeyError"))
       ELSE IF "contributions" \notin DOMAIN goals[i]
            THEN \* current_amount is already increased when the append raises
                 Result([d EXCEPT !.savings_goals[i].current_amount = @ + amount],
                        f, sh, Raise("KeyError"))
       ELSE LET k == sh[i]
                \* the list goals[i] holds, seen through every mapping that holds it
                goals2 == [j \in 1..Len(goals) |->
                            IF j = i
                            THEN [goals[j] EXCEPT !.current_amount = @ + amount,
                                                  !.contributions = Append(@, entry)]
                            ELSE IF k # 0 /\ sh[j] = k
                            THEN [goals[j] EXCEPT !.contributions = Append(@, entry)]
                            ELSE goals[j]]
                d2 == [d EXCEPT !.savings_goals = goals2]
            IN Saved(d2, sh, Ok(TRUE))

(***************************************************************************)
(* get_summary.  sum(...) adds from the left, starting at 0.               *)
(***************************************************************************)
RECURSIVE SumSeq(_)
SumSeq(ns) == IF ns = <<>> THEN 0 ELSE ns[1] + SumSeq(Tail(ns))

HasKey(rec, key) == key \in DOMAIN rec

IsTarget(i) == i.is_target
NotTarget(i) == ~i.is_target
\* e.get("is_recurring", False)
IsRecurring(e) == IF HasKey(e, "is_recurring") THEN e.is_recurring ELSE FALSE

\* variant: target incomes are counted as well
AllIncomes(incomes) == incomes

\* the incomes the total counts
CountedIncomes(incomes) == SelectSeq(incomes, NotTarget)

get_summary(d, f, sh) ==
    IF ~HasKey(d, "incomes")
       \/ (\E i \in 1..Len(d.incomes) : ~HasKey(d.incomes[i], "is_target"))
       \/ (\E i \in 1..Len(d.incomes) :
              HasKey(d.incomes[i], "is_target") /\ ~d.incomes[i].is_target
              /\ ~HasKey(d.incomes[i], "amount"))
       \/ ~HasKey(d, "expenses")
       \/ (\E i \in 1..Len(d.expenses) : ~HasKey(d.expenses[i], "amount"))
       \/ ~HasKey(d, "savings_goals")
       \/ (\E i \in 1..Len(d.savings_goals) : ~HasKey(d.savings_goals[i], "current_amount"))
    THEN Result(d, f, sh, Raise("KeyError"))
    ELSE
    LET counted == CountedIncomes(d.incomes)
        total_income == SumSeq([i \in 1..Len(counted) |-> counted[i].amount])
        total_expenses == SumSeq([i \in 1..Len(d.expenses) |-> d.expenses[i].amount])
        total_savings == SumSeq([i \in 1..Len(d.savings_goals) |->
                                    d.savings_goals[i].current_amount])
    IN Result(d, f, sh,
              Ok([net_balance |-> total_income - total_expenses,
                  total_income |-> total_income,
                  total_expenses |-> total_expenses,
                  total_savings |-> total_savings,
                  income_targets |-> SelectSeq(d.incomes, IsTarget),
                  expense_targets |-> SelectSeq(d.expenses, IsRecurring),
                  savings_goals |-> d.savings_goals]))

(***************************************************************************)
(* str operations the tabular codec uses.                                  *)
(***************************************************************************)
\* s.split(sep): the pieces between the occurrences of the symbol sep
RECURSIVE Split(_, _)
Split(s, sep) ==
    IF \A i \in 1..Len(s) : s[i] # sep THEN <<s>>
    ELSE LET p == CHOOSE i \in 1..Len(s) :
                     s[i] = sep /\ \A j \in 1..(i - 1) : s[j] # sep
         IN <<SubSeq(s, 1, p - 1)>> \o Split(SubSeq(s, p + 1, Len(s)), sep)

\* s.strip()
RECURSIVE Strip(_)
Strip(s) ==
    IF s = <<>> THEN s
    ELSE IF s[1] = " " THEN Strip(Tail(s))
    ELSE IF s[Len(s)] = " " THEN Strip(SubSeq(s, 1, Len(s) - 1))
    ELSE s

\* the numbers whose text the model reads
Numerals == 0..100

IsNumeral(s) == Len(Strip(s)) = 1 /\ \E n \in Numerals : Strip(s)[1] = ToString(n)

\* float(s) and int(s) of a numeral (surrounding blanks are accepted)
NumberOf(s) == CHOOSE n \in Numerals : Strip(s)[1] = ToString(n)

\* "True" in s: some run of text contains the letters True
SymbolsWithTrue == {"True", "Truecaller"}
ContainsTrue(s) == \E i \in 1..Len(s) : s[i] \in SymbolsWithTrue

(***************************************************************************)
(* _import_from_csv.  A row is what csv.DictReader yields under the        *)
(* header Type,Amount,Description,Date,Category,Details: one cell per      *)
(* column, None for a column the line is too short to fill.                *)
(***************************************************************************)
Row(type, amount, description, date, category, details) ==
    [Type |-> type, Amount |-> amount, Description |-> description,
     Date |-> date, Category |-> category, Details |-> details]

\* float(cell): "ok", or the exception float raises
FloatErr(cell) ==
    IF cell = None THEN "TypeError"
    ELSE IF ~IsNumeral(cell) THEN "ValueError"
    ELSE "ok"

Decoded(coll, rec) == [err |-> "ok", coll |-> coll, obj |-> rec]
RowError(e) == [err |-> e, coll |-> "none", obj |-> <<>>]

IncomeRow(row) ==
    IF FloatErr(row.Amount) # "ok" THEN RowError(FloatErr(row.Amount))
    ELSE IF row.Details = None THEN RowError("AttributeError")
    ELSE LET parts == Split(Split(row.Details, ",")[1], ":")
         IN IF Len(parts) < 2 THEN RowError("IndexError")
            ELSE Decoded("incomes",
                         [amount |-> NumberOf(row.Amount),
                          description |-> row.Description,
                          date |-> row.Date,
                          source |-> row.Category,
                          frequency |-> Strip(parts[2]),
                          is_target |-> ContainsTrue(row.Details)])

ExpenseRow(row) ==
    IF row.Category = None THEN RowError("AttributeError")
    ELSE LET parts == Split(row.Category, "/")
         IN IF Len(parts) # 2 THEN RowError("ValueError")
            ELSE IF FloatErr(row.Amount) # "ok" THEN RowError(FloatErr(row.Amount))
            ELSE IF row.Details = None THEN RowError("TypeError")
            ELSE Decoded("expenses",
                         [amount |-> NumberOf(row.Amount),
                          description |-> row.Description,
                          date |-> row.Date,
                          category |-> parts[1],
                          subcategory |-> parts[2],
                          is_recurring |-> ContainsTrue(row.Details)])

SavingsGoalRow(row) ==
    IF row.Amount = None THEN RowError("AttributeError")
    ELSE LET amounts == Split(row.Amount, "/")
         IN IF Len(amounts) # 2 \/ \E i \in 1..Len(amounts) : ~IsNumeral(amounts[i])
            THEN RowError("ValueError")
            ELSE IF row.Details = None THEN RowError("AttributeError")
            ELSE LET parts == Split(row.Details, ":")
                 IN IF Len(parts) < 2 THEN RowError("IndexError")
                    ELSE IF ~IsNumeral(parts[2]) THEN RowError("ValueError")
                    ELSE Decoded("savings_goals",
                                 [name |-> row.Description,
                                  target_amount |-> NumberOf(amounts[2]),
                                  current_amount |-> NumberOf(amounts[1]),
                                  category |-> row.Category,
                                  deadline |-> IF Truthy(row.Date) THEN row.Date ELSE None,
                                  priority |-> NumberOf(parts[2])])

\* the if / elif chain on row["Type"]; a row of any other type adds nothing
DecodeRow(row) ==
    IF row.Type = <<"Income">> THEN IncomeRow(row)
    ELSE IF row.Type = <<"Expense">> THEN ExpenseRow(row)
    ELSE IF row.Type = <<"Savings", " ", "Goal">> THEN SavingsGoalRow(row)
    ELSE Decoded("none", <<>>)

RECURSIVE ImportRows(_, _)
ImportRows(rows, acc) ==
    IF rows = <<>> THEN Ok(acc)
    ELSE LET r == DecodeRow(rows[1])
         IN IF r.err # "ok" THEN Raise(r.err)
            ELSE IF r.coll = "incomes"
                 THEN ImportRows(Tail(rows), [acc EXCEPT !.incomes = Append(@, r.obj)])
            ELSE IF r.coll = "expenses"
                 THEN ImportRows(Tail(rows), [acc EXCEPT !.expenses = Append(@, r.obj)])
            ELSE IF r.coll = "savings_goals"
                 THEN ImportRows(Tail(rows), [acc EXCEPT !.savings_goals = Append(@, r.obj)])
            ELSE ImportRows(Tail(rows), acc)

import_from_csv(rows) ==
    ImportRows(rows, [incomes |-> <<>>, expenses |-> <<>>, savings_goals |-> <<>>])

(***************************************************************************)
(* import_data.  path is the file named: its suffix and what it holds      *)
(* ("text" that is not JSON, a JSON number, a JSON object, or csv rows).   *)
(***************************************************************************)
RequiredKeys == {"incomes", "expenses", "savings_goals"}

\* the value decoded from the file, or the exception raised while decoding
ReadImport(path) ==
    IF path.suffix = ".json"
    THEN IF path.kind \in {"object", "number"} THEN Ok(path.val)
         ELSE Raise("JSONDecodeError")
    ELSE IF path.suffix = ".csv"
    THEN import_from_csv(path.val)
    ELSE Raise("ValueError")

\* "Basic validation": all(key in imported_data for key in required_keys)
ValidateErr(path, imported) ==
    IF path.suffix = ".json" /\ path.kind = "number" THEN "TypeError"
    ELSE IF \E key \in RequiredKeys : key \notin DOMAIN imported THEN "ValueError"
    ELSE "ok"

\* variant: the decoded object replaces the ledger before the key check
import_data_unchecked(d, f, sh, path) ==
    LET r == ReadImport(path)
    IN IF r.err # "ok" THEN Result(d, f, sh, Raise(r.err))
       ELSE IF ValidateErr(path, r.obj) = "TypeError"
            THEN Result(d, f, sh, Raise("TypeError"))
       ELSE IF ValidateErr(path, r.obj) # "ok"
            THEN Result(r.obj, f, NoSharing(r.obj), Raise(ValidateErr(path, r.obj)))
       ELSE Saved(r.obj, NoSharing(r.obj), Ok(None))

import_data(d, f, sh, path) ==
    LET r == ReadImport(path)
    IN IF r.err # "ok" THEN Result(d, f, sh, Raise(r.err))
       ELSE IF ValidateErr(path, r.obj) # "ok"
            THEN Result(d, f, sh, Raise(ValidateErr(path, r.obj)))
       ELSE Saved(r.obj, NoSharing(r.obj), Ok(None))

(***************************************************************************)
(* export_data and _export_to_csv.  csv.writer writes str(cell) for every  *)
(* cell but None, which it writes as the empty cell; it quotes a cell      *)
(* holding a comma, so csv.DictReader reads each cell back as written.     *)
(***************************************************************************)
\* a file on disk: its suffix and what it holds
File(suffix, kind, val) == [suffix |-> suffix, kind |-> kind, val |-> val]

\* the cell csv.writer writes for a str-or-None value
Cell(v) == IF v = None THEN <<>> ELSE v

\* str(b) of a bool inside an f-string
BoolStr(b) == IF b THEN <<"True">> ELSE <<"False">>

\* the keys of keys the mapping rec lacks: rec[key] raises KeyError on one
MissingKeys(rec, keys) == {key \in keys : key \notin DOMAIN rec}

IncomeOut(income) ==
    Row(<<"Income">>, Str(income.amount), Cell(income.description),
        Cell(income.date), Cell(income.source),
        <<"Frequency", ":", " ">> \o income.frequency
            \o <<",", " ", "Target", ":", " ">> \o BoolStr(income.is_target))

ExpenseOut(expense) ==
    Row(<<"Expense">>, Str(expense.amount), Cell(expense.description),
        Cell(expense.date),
        expense.category \o <<"/">> \o expense.subcategory,
        <<"Recurring", ":", " ">>
            \o BoolStr(IF "is_recurring" \in DOMAIN expense
                       THEN expense.is_recurring ELSE FALSE))

GoalOut(goal) ==
    Row(<<"Savings", " ", "Goal">>,
        Str(goal.current_amount) \o <<"/">> \o Str(goal.target_amount),
        Cell(goal.name),
        IF "deadline" \in DOMAIN goal THEN Cell(goal.deadline) ELSE <<>>,
        Cell(goal.category),
        <<"Priority", ":", " ">> \o Str(goal.priority))

IncomeKeys == {"amount", "description", "date", "source", "frequency", "is_target"}
ExpenseKeys == {"amount", "description", "date", "category", "subcategory"}
GoalKeys == {"current_amount", "target_amount", "name", "category", "priority"}

\* the rows written under the header, or the KeyError of the first lookup
\* that fails
export_to_csv(d) ==
    IF MissingKeys(d, RequiredKeys) # {} THEN Raise("KeyError")
    ELSE IF \/ \E i \in 1..Len(d.incomes) : MissingKeys(d.incomes[i], IncomeKeys) # {}
            \/ \E i \in 1..Len(d.expenses) : MissingKeys(d.expenses[i], ExpenseKeys) # {}
            \/ \E i \in 1..Len(d.savings_goals) :
                   MissingKeys(d.savings_goals[i], GoalKeys) # {}
         THEN Raise("KeyError")
    ELSE Ok([i \in 1..Len(d.incomes) |-> IncomeOut(d.incomes[i])]
            \o [i \in 1..Len(d.expenses) |-> ExpenseOut(d.expenses[i])]
            \o [i \in 1..Len(d.savings_goals) |-> GoalOut(d.savings_goals[i])])

\* export_data(format, path): the ledger is left as it is; the result is the
\* file found at the path returned
export_data(d, f, sh, format) ==
    IF format = "json" THEN Result(d, f, sh, Ok(File(".json", "object", d)))
    ELSE IF format = "csv"
         THEN LET r == export_to_csv(d)
              IN IF r.err # "ok" THEN Result(d, f, sh, Raise(r.err))
                 ELSE Result(d, f, sh, Ok(File(".csv", "rows", r.obj)))
    ELSE Result(d, f, sh, Raise("ValueError"))

(***************************************************************************)
(* Inputs the operations are exercised on.                                 *)
(***************************************************************************)
Amounts == {100, 0}
Contributions == {5}
\* amounts passed to add_contribution: one valid, one that is not positive
ContributionInputs == {5, 0}

\* SavingsGoal(name, target_amount, ELECTRONICS, None, priority): a valid
\* goal, one with a target that is not positive, one with priority above 5
GoalInputs ==
    { [name |-> <<"Laptop">>, target_amount |-> 10, priority |-> 2],
      [name |-> <<"Laptop">>, target_amount |-> 0, priority |-> 2],
      [name |-> <<"Laptop">>, target_amount |-> 10, priority |-> 6] }

\* the id of the goal the sessions add, as the running process computes it,
\* an id no goal has, and the ids the ledger holds
LaptopId == SavingsGoalInit(<<"Laptop">>, 10, "ELECTRONICS", None, 2).obj.id
UnknownId == <<"#", "nothing">>
StoredIds ==
    IF "savings_goals" \notin DOMAIN data THEN {}
    ELSE {data.savings_goals[i].id :
            i \in {j \in 1..Len(data.savings_goals) : "id" \in DOMAIN data.savings_goals[j]}}
GoalIds == {LaptopId, UnknownId} \cup StoredIds

\* the id a process seeded with s1 gave the goal Laptop
StoredLaptopId ==
    HashOf("s1", <<"Laptop", "-", "10", "-", "SavingsCategory.", "ELECTRONICS">>)

\* a ledger as a structured export of an earlier session holds it
ExportedLedger ==
    [incomes |-> <<[id |-> <<"#", "i1">>, amount |-> 100, description |-> <<"Job">>,
                    date |-> <<"2026-10-01">>, type |-> <<"income">>,
                    source |-> <<"Job">>, frequency |-> <<"monthly">>,
                    is_target |-> FALSE],
                   [id |-> <<"#", "i2">>, amount |-> 50, description |-> <<"Freelance">>,
                    date |-> <<"2026-10-02">>, type |-> <<"income">>,
                    source |-> <<"Freelance">>, frequency |-> <<"one-time">>,
                    is_target |-> TRUE]>>,
     expenses |-> <<[id |-> <<"#", "e1">>, amount |-> 30, description |-> <<"software">>,
                     date |-> <<"2026-10-03">>, type |-> <<"expense">>,
                     category |-> <<"business">>, subcategory |-> <<"software">>,
                     is_recurring |-> TRUE]>>,
     savings_goals |-> <<[id |-> StoredLaptopId, name |-> <<"Laptop">>, target_amount |-> 10,
                          current_amount |-> 5, category |-> <<"electronics">>,
                          deadline |-> None, priority |-> 2,
                          contributions |-> <<[amount |-> 5, date |-> <<"2026-10-04">>]>>]>>,
     version |-> Version]

IncomeLine == Row(<<"Income">>, <<"100">>, <<"Job">>, <<"2026-10-01">>, <<"Job">>,
                  <<"Frequency", ":", " ", "monthly", ",", " ", "Target", ":", " ", "False">>)
TargetLine == Row(<<"Income">>, <<"50">>, <<"Freelance">>, <<"2026-10-02">>, <<"Freelance">>,
                  <<"Frequency", ":", " ", "one-time", ",", " ", "Target", ":", " ", "True">>)
ExpenseLine == Row(<<"Expense">>, <<"30">>, <<"software">>, <<"2026-10-03">>,
                   <<"business", "/", "software">>, <<"Recurring", ":", " ", "True">>)
GoalLine == Row(<<"Savings", " ", "Goal">>, <<"5", "/", "10">>, <<"Laptop">>, <<>>,
                <<"electronics">>, <<"Priority", ":", " ", "2">>)
\* an Expense line whose Category has no "/"
BadExpenseLine == Row(<<"Expense">>, <<"30">>, <<"software">>, <<"2026-10-03">>,
                      <<"business">>, <<"Recurring", ":", " ", "True">>)
\* a line too short to fill the Amount column and those after it
ShortLine == Row(<<"Income">>, None, None, None, None, None)

ImportFiles ==
    { File(".txt", "text", <<>>),
      File(".json", "text", <<>>),
      File(".json", "number", 7),
      File(".json", "object", [incomes |-> <<>>, expenses |-> <<>>, version |-> Version]),
      File(".json", "object", ExportedLedger),
      File(".csv", "rows", <<>>),
      File(".csv", "rows", <<IncomeLine, TargetLine, ExpenseLine, GoalLine>>),
      File(".csv", "rows", <<GoalLine, BadExpenseLine>>),
      File(".csv", "rows", <<ShortLine>>) }

\* a ledger whose expense has a subcategory with a "/" in its text
SlashLedger ==
    [ExportedLedger EXCEPT !.expenses[1].subcategory = <<"food", "/", "drinks">>]

\* a line whose Type is none of Income, Expense, Savings Goal
OtherLine == Row(<<"Transfer">>, <<"1">>, <<"x">>, <<>>, <<>>, <<>>)
\* a line with a seventh cell: DictReader keeps the cells past the header
\* under a key of their own
LongLine ==
    [Type |-> <<"Savings", " ", "Goal">>, Amount |-> <<"5", "/", "10">>,
     Description |-> <<"Laptop">>, Date |-> <<>>, Category |-> <<"electronics">>,
     Details |-> <<"Priority", ":", " ", "2">>, rest |-> <<<<"extra">>>>]
\* an Income line whose Amount is not a number
WordAmountLine ==
    Row(<<"Income">>, <<"abc">>, <<"Job">>, <<"2026-10-01">>, <<"Job">>,
        <<"Frequency", ":", " ", "monthly", ",", " ", "Target", ":", " ", "False">>)
\* a Savings Goal line whose Amount has no "/"
BadGoalLine == Row(<<"Savings", " ", "Goal">>, <<"5">>, <<"Laptop">>, <<>>,
                   <<"electronics">>, <<"Priority", ":", " ", "2">>)

\* the files of the sessions that export and import tables
TableFiles ==
    { File(".json", "object", ExportedLedger),
      File(".json", "object", SlashLedger),
      File(".csv", "rows", <<OtherLine, GoalLine>>),
      File(".csv", "rows", <<LongLine>>),
      File(".csv", "rows", <<GoalLine, ShortLine>>),
      File(".csv", "rows", <<GoalLine, BadExpenseLine>>),
      File(".csv", "rows", <<GoalLine, WordAmountLine>>),
      File(".csv", "rows", <<GoalLine, BadGoalLine>>) }

ExportFormats == {"json", "csv", "xml"}

(***************************************************************************)
(* The state machine: a session constructs the manager (Init, Restart)     *)
(* and then calls its operations one at a time.                            *)
(***************************************************************************)
Last(op, arg, res) == [op |-> op, arg |-> arg, res |-> res]

\* the seeds a process hashes str with (PYTHONHASHSEED, random by default)
HashSeeds == {"s1", "s2"}

\* FinanceManager(data_file) in a new process: self.data is the default when
\* load_data is called, and an exception load_data does not catch leaves
\* the constructor, so that no manager exists
Construct(f, seed) ==
    LET r == load_data(f)
        d == IF r.err = "ok" THEN r.obj ELSE DefaultData
    IN [data |-> d, shared |-> NoSharing(d),
        objects |-> NoSharing(d),
        last |-> Last("init", <<>>, IF r.err = "ok" THEN Ok(None) ELSE r),
        pc |-> IF r.err = "ok" THEN "idle" ELSE "failed",
        hashseed |-> seed]

Init ==
    /\ file \in {Absent, Corrupt, Undecodable}
    /\ hashseed \in HashSeeds
    /\ data = Construct(file, hashseed).data
    /\ shared = Construct(file, hashseed).shared
    /\ objects = Construct(file, hashseed).objects
    /\ last = Construct(file, hashseed).last
    /\ pc = Construct(file, hashseed).pc

\* a call: the operation, its arguments and what the handler returned
Call(op, arg, r) == [op |-> op, arg |-> arg, r |-> r]

\* take the manager to the state a handler returned; the handler's save,
\* if any, is part of the step
\* the objects the caller holds for the mappings of the ledger after the
\* call c: an add made one more mapping from an object (to_dict copies the
\* object's current_amount), an import replaced the ledger by decoded
\* mappings
Held(c) ==
    IF c.r.shared = shared THEN objects
    ELSE IF c.op \in {"add_goal", "add_goal_again"}
         THEN Append(objects,
                     c.r.data.savings_goals[Len(c.r.data.savings_goals)].current_amount)
    ELSE c.r.shared

Apply(c) ==
    /\ data' = c.r.data
    /\ file' = c.r.file
    /\ shared' = c.r.shared
    /\ objects' = Held(c)
    /\ last' = Last(c.op, c.arg, c.r.res)
    /\ pc' = "idle"
    /\ UNCHANGED hashseed

\* Income(...) then add_income(income)
AddIncomeCall(amount) ==
    LET arg == [amount |-> amount, source |-> <<"Job">>, frequency |-> "MONTHLY",
                description |-> <<>>, is_target |-> FALSE]
        c == IncomeInit(amount, <<"Job">>, "MONTHLY", <<>>, FALSE)
    IN IF c.err # "ok"
       THEN Call("add_income", arg, Result(data, file, shared, c))
       ELSE Call("add_income", arg, add_income(data, file, shared, c.obj))

\* Expense(...) then add_expense(expense)
AddExpenseCall(amount) ==
    LET arg == [amount |-> amount, category |-> "BUSINESS",
                subcategory |-> <<"software">>,
                description |-> <<>>, is_recurring |-> TRUE]
        c == ExpenseInit(amount, "BUSINESS", <<"software">>, <<>>, TRUE)
    IN IF c.err # "ok"
       THEN Call("add_expense", arg, Result(data, file, shared, c))
       ELSE Call("add_expense", arg, add_expense(data, file, shared, c.obj))

GoalsFull == "savings_goals" \in DOMAIN data /\ Len(data.savings_goals) >= MaxGoals

\* SavingsGoal(...) then add_savings_goal(goal): a new object, a new list
AddGoalCall(in) ==
    LET arg == [name |-> in.name, target_amount |-> in.target_amount,
                category |-> "ELECTRONICS", deadline |-> None,
                priority |-> in.priority]
        c == SavingsGoalInit(in.name, in.target_amount, "ELECTRONICS", None, in.priority)
    IN IF c.err # "ok"
       THEN Call("add_goal", arg, Result(data, file, shared, c))
       ELSE Call("add_goal", arg,
                 add_savings_goal(data, file, shared, c.obj, Len(shared) + 1))

\* the SavingsGoal object savings_goals[i] was made from, as to_dict() shows
\* it: contribute_to_goal changes the mapping's current_amount, not the
\* object's, and the list is the one both hold
GoalObject(i) == [data.savings_goals[i] EXCEPT !.current_amount = objects[shared[i]]]

\* add_savings_goal(goal) once more with the goal savings_goals[i] was made from
AddGoalAgainCall(i) ==
    Call("add_goal_again", [i |-> i],
         add_savings_goal(data, file, shared, GoalObject(i), shared[i]))

\* the number of contribution entries the ledger holds
Entries(goals) ==
    SumSeq([i \in 1..Len(goals) |->
              IF "contributions" \in DOMAIN goals[i] THEN Len(goals[i].contributions) ELSE 0])

\* a contribute(goal_id, ...) that extends a list keeps the ledger within
\* MaxContrib entries
ContribRoom(goal_id) ==
    IF "savings_goals" \notin DOMAIN data THEN TRUE
    ELSE LET i == ScanStop(data.savings_goals, goal_id)
         IN IF i = 0 THEN TRUE
            ELSE IF "contributions" \in DOMAIN data.savings_goals[i]
                 THEN Entries(data.savings_goals) < MaxContrib
            ELSE TRUE

ContributeCall(goal_id, amount) ==
    Call("contribute", [goal_id |-> goal_id, amount |-> amount],
         contribute_to_goal(data, file, shared, goal_id, amount))

ImportCall(path) ==
    Call("import", path, import_data(data, file, shared, path))

AddIncome ==
    /\ pc = "idle"
    /\ \E amount \in Amounts : Apply(AddIncomeCall(amount))

AddExpense ==
    /\ pc = "idle"
    /\ \E amount \in Amounts : Apply(AddExpenseCall(amount))

AddGoal ==
    /\ pc = "idle"
    /\ ~GoalsFull
    /\ \E in \in GoalInputs : Apply(AddGoalCall(in))

AddGoalAgain ==
    /\ pc = "idle"
    /\ ~GoalsFull
    /\ \E i \in 1..Len(shared) :
         /\ shared[i] # 0
         /\ Apply(AddGoalAgainCall(i))

Contribute ==
    /\ pc = "idle"
    /\ \E goal_id \in GoalIds, amount \in Contributions :
         /\ ContribRoom(goal_id)
         /\ Apply(ContributeCall(goal_id, amount))

Import ==
    /\ pc = "idle"
    /\ \E path \in ImportFiles : Apply(ImportCall(path))

Summary ==
    /\ pc = "idle"
    /\ Apply(Call("summary", <<>>, get_summary(data, file, shared)))

\* g.add_contribution(amount, date) on the SavingsGoal g that
\* savings_goals[i] was first made from: the list the object appends to is
\* the one its mappings in the ledger hold; nothing is saved
AddContributionCall(i, amount, dateArg) ==
    LET r == add_contribution(GoalObject(i), amount, dateArg)
        goals == [j \in 1..Len(data.savings_goals) |->
                    IF shared[j] = i
                    THEN [data.savings_goals[j] EXCEPT
                            !.contributions = r.goal.contributions]
                    ELSE data.savings_goals[j]]
    IN [op |-> "add_contribution",
        arg |-> [i |-> i, amount |-> amount, date |-> dateArg],
        r |-> Result([data EXCEPT !.savings_goals = goals], file, shared, r.res),
        held |-> r.goal.current_amount]

AddContribution ==
    /\ pc = "idle"
    /\ \E i \in 1..Len(shared), amount \in ContributionInputs, dateArg \in {None, Today} :
         /\ shared[i] = i
         /\ LET c == AddContributionCall(i, amount, dateArg)
            IN /\ c.held <= MaxHeld
               /\ Entries(c.r.data.savings_goals) <= MaxContrib
               /\ data' = c.r.data
               /\ objects' = [objects EXCEPT ![i] = c.held]
               /\ last' = Last(c.op, c.arg, c.r.res)
               /\ UNCHANGED <<file, shared, pc, hashseed>>

\* a new session: the program is run again over the same file
Restart ==
    /\ pc \in {"idle", "failed"}
    /\ \E seed \in HashSeeds :
         /\ hashseed' = seed
         /\ data' = Construct(file, seed).data
         /\ shared' = Construct(file, seed).shared
         /\ objects' = Construct(file, seed).objects
         /\ last' = Construct(file, seed).last
         /\ pc' = Construct(file, seed).pc
    /\ UNCHANGED file

Next ==
    \/ AddIncome
    \/ AddExpense
    \/ AddGoal
    \/ AddGoalAgain
    \/ Contribute
    \/ AddContribution
    \/ Summary
    \/ Import
    \/ Restart

Spec == Init /\ [][Next]_vars

(***************************************************************************)
(* The ledger grown from empty by append_goal and contribute alone.        *)
(***************************************************************************)
InitEmpty ==
    /\ file = Absent
    /\ hashseed \in HashSeeds
    /\ data = load_data(file).obj
    /\ shared = <<>>
    /\ objects = <<>>
    /\ last = Last("init", <<>>, Ok(None))
    /\ pc = "idle"

\* the amounts these sessions contribute
AppendContributions == {5, 7}

ContributeAppend ==
    /\ pc = "idle"
    /\ \E goal_id \in GoalIds, amount \in AppendContributions :
         /\ ContribRoom(goal_id)
         /\ Apply(ContributeCall(goal_id, amount))

NextAppend ==
    \/ AddGoal
    \/ AddGoalAgain
    \/ ContributeAppend

SpecAppend == InitEmpty /\ [][NextAppend]_vars

(***************************************************************************)
(* save_data at the grain of its file operations: open(path, "w") empties  *)
(* the file, json.dump then writes the text.  Between the two the write    *)
(* either completes or is cut short (json.dump raises, or the process is   *)
(* interrupted), which leaves the file as it is at that moment.            *)
(***************************************************************************)
ApplyOpen(c) ==
    /\ data' = c.r.data
    /\ file' = IF c.r.saved THEN Partial ELSE c.r.file
    /\ shared' = c.r.shared
    /\ objects' = Held(c)
    /\ UNCHANGED hashseed
    /\ last' = Last(c.op, c.arg, c.r.res)
    /\ pc' = IF c.r.saved THEN "saving" ELSE "idle"

OpenAddIncome ==
    /\ pc = "idle"
    /\ \E amount \in Amounts : ApplyOpen(AddIncomeCall(amount))

OpenAddExpense ==
    /\ pc = "idle"
    /\ \E amount \in Amounts : ApplyOpen(AddExpenseCall(amount))

OpenAddGoal ==
    /\ pc = "idle"
    /\ ~GoalsFull
    /\ \E in \in GoalInputs : ApplyOpen(AddGoalCall(in))

OpenAddGoalAgain ==
    /\ pc = "idle"
    /\ ~GoalsFull
    /\ \E i \in 1..Len(shared) :
         /\ shared[i] # 0
         /\ ApplyOpen(AddGoalAgainCall(i))

OpenContribute ==
    /\ pc = "idle"
    /\ \E goal_id \in GoalIds, amount \in Contributions :
         /\ ContribRoom(goal_id)
         /\ ApplyOpen(ContributeCall(goal_id, amount))

OpenImport ==
    /\ pc = "idle"
    /\ \E path \in ImportFiles : ApplyOpen(ImportCall(path))

\* json.dump writes the whole text and the file is closed
FinishSave ==
    /\ pc = "saving"
    /\ file' = save_data(data)
    /\ pc' = "idle"
    /\ UNCHANGED <<data, shared, last, hashseed, objects>>

\* the write is cut short: the exception leaves the handler
SaveInterrupted ==
    /\ pc = "saving"
    /\ pc' = "idle"
    /\ last' = [last EXCEPT !.res = Raise("Interrupted")]
    /\ UNCHANGED <<data, file, shared, hashseed, objects>>

NextIO ==
    \/ OpenAddIncome
    \/ OpenAddExpense
    \/ OpenAddGoal
    \/ OpenAddGoalAgain
    \/ OpenContribute
    \/ OpenImport
    \/ FinishSave
    \/ SaveInterrupted
    \/ Summary
    \/ Restart

SpecIO == Init /\ [][NextIO]_vars

(***************************************************************************)
(* Sessions that export the ledger and import files: the file an export    *)
(* wrote can be imported by the next call.                                 *)
(***************************************************************************)
ExportCall(format) ==
    Call("export", [format |-> format], export_data(data, file, shared, format))

Export ==
    /\ pc = "idle"
    /\ \E format \in ExportFormats : Apply(ExportCall(format))

\* import_data(path) with the path the export just before it returned
ImportExported ==
    /\ pc = "idle"
    /\ last.op = "export"
    /\ last.res.err = "ok"
    /\ Apply(ImportCall(last.res.obj))

ImportTable ==
    /\ pc = "idle"
    /\ \E path \in TableFiles : Apply(ImportCall(path))

NextTable ==
    \/ AddGoal
    \/ Contribute
    \/ Export
    \/ ImportExported
    \/ ImportTable

SpecTable == Init /\ [][NextTable]_vars

(***************************************************************************)
(* Properties.                                                             *)
(***************************************************************************)
HasGoals(d) == "savings_goals" \in DOMAIN d

\* the sum of f over the index set S, in no particular order
RECURSIVE SumOver(_, _)
SumOver(S, f) ==
    IF S = {} THEN 0
    ELSE LET x == CHOOSE y \in S : TRUE IN f[x] + SumOver(S \ {x}, f)

\* C1: an import that fails (unsupported suffix, undecodable file, malformed
\* row, missing required key) leaves the in-memory ledger and the durable
\* file exactly as they were before the call.
C1_FailedImportChangesNothing ==
    [][(last'.op = "import" /\ last'.res.err # "ok")
         => (data' = data /\ file' = file)]_vars

\* a failed import over a ledger that holds a goal and is saved
C1_Witness ==
    /\ last.op = "import"
    /\ last.res.err = "ValueError"
    /\ last.arg.suffix = ".json"
    /\ HasGoals(data)
    /\ Len(data.savings_goals) > 0
    /\ file = save_data(data)

\* C2: right after an append, a contribute that returned true or a
\* successful import, the durable file decodes to exactly the in-memory
\* ledger.
C2_SavedAfterEveryMutation ==
    (/\ last.res.err = "ok"
     /\ \/ last.op \in {"add_income", "add_expense", "add_goal", "add_goal_again", "import"}
        \/ (last.op = "contribute" /\ last.res.obj = TRUE))
    => (file.kind = "json" /\ load_data(file) = Ok(data))

\* a contribute has just returned true and the file holds the new ledger
C2_Witness ==
    /\ last.op = "contribute"
    /\ last.res.err = "ok"
    /\ last.res.obj = TRUE
    /\ file.kind = "json"
    /\ load_data(file) = Ok(data)
    /\ Entries(data.savings_goals) > 0

\* C3: the durable file is never seen empty or truncated by a save, in no
\* state, the middle of a save and an interrupted save included; it holds a
\* complete encoding.
C3_NoPartialFile == file.kind # "partial"

NoGoalHasId(goals, goal_id) ==
    \A i \in 1..Len(goals) :
        IF "id" \in DOMAIN goals[i] THEN goals[i].id # goal_id ELSE TRUE

\* C4: contribute with a goal_id that matches no goal returns false without
\* raising and leaves the ledger and the durable file unchanged, whatever
\* the ledger (one built by an import included).
C4_UnknownIdReturnsFalse ==
    [][(/\ last'.op = "contribute"
        /\ HasGoals(data)
        /\ NoGoalHasId(data.savings_goals, last'.arg.goal_id))
         => (/\ last'.res.err = "ok"
             /\ last'.res.obj = FALSE
             /\ data' = data
             /\ file' = file)]_vars

\* the first goal, in collection order, whose id is goal_id
FirstWithId(goals, goal_id) ==
    CHOOSE i \in 1..Len(goals) :
        /\ ~NoGoalHasId(<<goals[i]>>, goal_id)
        /\ NoGoalHasId(SubSeq(goals, 1, i - 1), goal_id)

\* C5: contribute with the id of at least one goal returns true, adds amount
\* to current_amount of the first such goal, appends one {amount, date}
\* entry to its contributions, and changes nothing else in the ledger.
C5_ContributeUpdatesFirstMatch ==
    [][(/\ last'.op = "contribute"
        /\ HasGoals(data)
        /\ ~NoGoalHasId(data.savings_goals, last'.arg.goal_id))
         => (/\ last'.res.err = "ok"
             /\ last'.res.obj = TRUE
             /\ LET i == FirstWithId(data.savings_goals, last'.arg.goal_id)
                    amount == last'.arg.amount
                IN data' = [data EXCEPT
                              !.savings_goals[i].current_amount = @ + amount,
                              !.savings_goals[i].contributions =
                                  Append(@, [amount |-> amount, date |-> Today])])]_vars

IsPrefix(s, t) == Len(s) <= Len(t) /\ SubSeq(t, 1, Len(s)) = s

\* C6: in a ledger grown from empty by append_goal and contribute, every
\* goal's current_amount is the sum of the amounts in its contributions, and
\* a goal's contributions only grow at the end.
C6_CurrentIsSumOfContributions ==
    [][\A i \in 1..Len(data'.savings_goals) :
         LET g == data'.savings_goals[i]
         IN /\ g.current_amount =
                 SumOver(1..Len(g.contributions),
                         [j \in 1..Len(g.contributions) |-> g.contributions[j].amount])
            /\ i <= Len(data.savings_goals)
                 => IsPrefix(data.savings_goals[i].contributions, g.contributions)]_vars

UniqueIds(coll) ==
    \A i, j \in 1..Len(coll) :
        (i # j /\ "id" \in DOMAIN coll[i] /\ "id" \in DOMAIN coll[j])
            => coll[i].id # coll[j].id

\* C7: no two entries of incomes, of expenses or of savings_goals share an id.
C7_IdsUniquePerCollection ==
    /\ "incomes" \in DOMAIN data => UniqueIds(data.incomes)
    /\ "expenses" \in DOMAIN data => UniqueIds(data.expenses)
    /\ "savings_goals" \in DOMAIN data => UniqueIds(data.savings_goals)

\* C8: the in-memory ledger always has the four keys incomes, expenses,
\* savings_goals and version.
C8_LedgerHasFourKeys ==
    {"incomes", "expenses", "savings_goals", "version"} \subseteq DOMAIN data

\* C9: summary changes neither the ledger nor the file; total_income is the
\* sum of amount over the incomes with is_target false, total_expenses the
\* sum over all expenses, net_balance their difference, total_savings the
\* sum of current_amount over all goals.
C9_SummaryTotals ==
    [][last'.op = "summary"
         => /\ data' = data
            /\ file' = file
            /\ last'.res.err = "ok"
            /\ LET r == last'.res.obj
                   inc == data.incomes
                   exp == data.expenses
                   gls == data.savings_goals
                   income == SumOver({i \in 1..Len(inc) : inc[i].is_target = FALSE},
                                     [i \in 1..Len(inc) |-> inc[i].amount])
                   spent == SumOver(1..Len(exp), [i \in 1..Len(exp) |-> exp[i].amount])
               IN /\ r.total_income = income
                  /\ r.total_expenses = spent
                  /\ r.net_balance = income - spent
                  /\ r.total_savings =
                       SumOver(1..Len(gls), [i \in 1..Len(gls) |-> gls[i].current_amount])]_vars

\* a summary of a ledger with a target income, a counted income, an expense
\* and a goal nothing was contributed to
C9_Witness ==
    /\ last.op = "summary"
    /\ last.res.err = "ok"
    /\ \E i \in 1..Len(data.incomes) : data.incomes[i].is_target
    /\ last.res.obj.total_income = 100
    /\ last.res.obj.net_balance = 70
    /\ \E i \in 1..Len(data.savings_goals) :
         /\ "contributions" \in DOMAIN data.savings_goals[i]
         /\ data.savings_goals[i].contributions = <<>>
    /\ last.res.obj.total_savings = 5

\* C10: construction with valid inputs (amount > 0; target_amount > 0 and
\* priority in 1..5) succeeds and the record appended to the ledger carries
\* the inputs, with today's date when none is given.
C10_ValidConstructionSucceeds ==
    /\ (last.op = "add_income" /\ last.arg.amount > 0)
         => IF last.res.err # "ok" THEN FALSE
            ELSE LET r == data.incomes[Len(data.incomes)]
                 IN /\ r.amount = last.arg.amount
                    /\ r.source = last.arg.source
                    /\ r.frequency = Frequency[last.arg.frequency]
                    /\ r.is_target = last.arg.is_target
                    /\ r.date = Today
    /\ (last.op = "add_expense" /\ last.arg.amount > 0)
         => IF last.res.err # "ok" THEN FALSE
            ELSE LET r == data.expenses[Len(data.expenses)]
                 IN /\ r.amount = last.arg.amount
                    /\ r.category = ExpenseCategory[last.arg.category]
                    /\ r.subcategory = last.arg.subcategory
                    /\ r.is_recurring = last.arg.is_recurring
                    /\ r.date = Today
    /\ (last.op = "add_goal" /\ last.arg.target_amount > 0
          /\ last.arg.priority \in 1..5)
         => IF last.res.err # "ok" THEN FALSE
            ELSE LET g == data.savings_goals[Len(data.savings_goals)]
                 IN /\ g.name = last.arg.name
                    /\ g.target_amount = last.arg.target_amount
                    /\ g.category = SavingsCategory[last.arg.category]
                    /\ g.deadline = last.arg.deadline
                    /\ g.priority = last.arg.priority

(***************************************************************************)
(* Tabular export followed by tabular import of the file written.          *)
(***************************************************************************)
\* this step imports the table the export just before it wrote
TableRoundTrip ==
    /\ last.op = "export"
    /\ last.res.err = "ok"
    /\ last.arg.format = "csv"
    /\ last'.op = "import"
    /\ last'.arg.suffix = ".csv"
    /\ last'.arg.val = last.res.obj.val

EnumValues(enum) == {enum[k] : k \in DOMAIN enum}

\* incomes and expenses as the data model has them
ModelIncome(r) ==
    /\ IncomeKeys \subseteq DOMAIN r
    /\ r.frequency \in EnumValues(Frequency)
    /\ r.is_target \in BOOLEAN

ModelExpense(r) ==
    /\ (ExpenseKeys \cup {"is_recurring"}) \subseteq DOMAIN r
    /\ r.category \in EnumValues(ExpenseCategory)
    /\ r.is_recurring \in BOOLEAN

\* the fields `keys` of a and b are the same
SameFields(a, b, keys) ==
    /\ keys \subseteq DOMAIN a
    /\ keys \subseteq DOMAIN b
    /\ \A k \in keys : a[k] = b[k]

\* C11: for a ledger whose incomes and expenses satisfy the data model,
\* tabular export followed by tabular import of that file succeeds and gives
\* incomes and expenses of the same length and order, each record with the
\* original amount, description, date, source, frequency, is_target (Income)
\* and category, subcategory, is_recurring (Expense).
C11_IncomeExpenseRoundTrip ==
    [][(/\ TableRoundTrip
        /\ \A i \in 1..Len(data.incomes) : ModelIncome(data.incomes[i])
        /\ \A i \in 1..Len(data.expenses) : ModelExpense(data.expenses[i]))
         => IF last'.res.err # "ok" THEN FALSE
            ELSE /\ Len(data'.incomes) = Len(data.incomes)
                 /\ Len(data'.expenses) = Len(data.expenses)
                 /\ \A i \in 1..Len(data.incomes) :
                      SameFields(data'.incomes[i], data.incomes[i], IncomeKeys)
                 /\ \A i \in 1..Len(data.expenses) :
                      SameFields(data'.expenses[i], data.expenses[i],
                                 ExpenseKeys \cup {"is_recurring"})]_vars

\* C12: after tabular export followed by tabular import, every goal has the
\* original name, current_amount, target_amount, category, deadline and
\* priority, and a contributions field that is the empty sequence.
C12_GoalRoundTrip ==
    [][TableRoundTrip
         => IF last'.res.err # "ok" THEN FALSE
            ELSE /\ Len(data'.savings_goals) = Len(data.savings_goals)
                 /\ \A i \in 1..Len(data.savings_goals) :
                      /\ SameFields(data'.savings_goals[i], data.savings_goals[i],
                                    GoalKeys \cup {"deadline"})
                      /\ "contributions" \in DOMAIN data'.savings_goals[i]
                      /\ data'.savings_goals[i].contributions = <<>>]_vars

ColumnNames == {"Type", "Amount", "Description", "Date", "Category", "Details"}
RowTypes == {<<"Income">>, <<"Expense">>, <<"Savings", " ", "Goal">>}

\* a malformed row: wrong column count, non-numeric amount, no "/" in an
\* Expense category or a Savings Goal amount, or a Type that is none of the
\* three
MalformedRow(row) ==
    IF DOMAIN row # ColumnNames THEN TRUE
    ELSE IF \E c \in ColumnNames : row[c] = None THEN TRUE
    ELSE IF row.Type \notin RowTypes THEN TRUE
    ELSE IF row.Type = <<"Income">> THEN ~IsNumeral(row.Amount)
    ELSE IF row.Type = <<"Expense">>
         THEN ~IsNumeral(row.Amount) \/ Len(Split(row.Category, "/")) < 2
    ELSE Len(Split(row.Amount, "/")) < 2

\* C13: a tabular import of a file with a malformed row fails with an error
\* and no row of the file reaches the ledger.
C13_MalformedRowFailsImport ==
    [][(/\ last'.op = "import"
        /\ last'.arg.suffix = ".csv"
        /\ \E i \in 1..Len(last'.arg.val) : MalformedRow(last'.arg.val[i]))
         => (last'.res.err # "ok" /\ data' = data /\ file' = file)]_vars

====
